---- MODULE Spec2Model ----
(***************************************************************************)
(* The scene-setup and draw pipeline of webgl.js: context acquisition,     *)
(* shader compilation, program linking, location lookup, buffer upload and *)
(* drawScene, run against a model of the WebGL 1 backend the script calls. *)
(*                                                                         *)
(* Real numbers are fixed-point integers in thousandths (0.5 is 500).      *)
(* Object handles are positive integers, null is 0, a missing attribute    *)
(* or uniform location is -1.                                              *)
(***************************************************************************)
EXTENDS Integers, Sequences, FiniteSets, TLC

(* ------------------------------ bounds --------------------------------- *)

\* drawScene is invoked at most MaxFrames times in one run
MaxFrames == 2
\* the framebuffer is sampled at NDC points (i*GridStep, j*GridStep)/1000,
\* i, j in -GridN..GridN
GridN == 5
GridStep == 45

(* --------------------------- program constants ------------------------- *)

NULL == 0
NoLocation == 0 - 1
Fix == 1000

VERTEX_SHADER == 35633
FRAGMENT_SHADER == 35632
COMPILE_STATUS == 35713
LINK_STATUS == 35714
ARRAY_BUFFER == 34962
STATIC_DRAW == 35044
FLOAT == 5126
TRIANGLES == 4
COLOR_BUFFER_BIT == 16384
DEPTH_BUFFER_BIT == 256

\* the context id the script passes to canvas.getContext
RequestedContext == "webgl"
\* the context ids a canvas may support
ContextIds == {"webgl", "experimental-webgl"}

\* 1 / tan(fovy / 2) for fovy = 45 degrees
CotHalfFov == 2414
Near == 100
Far == 100000
CameraZ == 0 - 6000
PositionSize == 3
ColorSize == 4
\* the vertex count the single-triangle scripts pass to drawArrays
LiteralVertexCount == 3

Variants == {"multi", "single", "upload"}

\* the sizes the host page may give the canvas: the default of a canvas element
\* and a 4:3 one
CanvasSizes == { [width |-> 300, height |-> 150], [width |-> 640, height |-> 480] }

\* the first triangle with RGB colours, three components a vertex
Triangle1_rgb ==
  [positions |-> << -500, -500, -3000,   500, -500, -3000,   0, 500, -3000 >>,
   colors    |-> << 1000, 0, 0,   0, 1000, 0,   0, 0, 1000 >>]

Triangle1 ==
  [positions |-> << -500, -500, -3000,   500, -500, -3000,   0, 500, -3000 >>,
   colors    |-> << 1000, 0, 0, 1000,   0, 1000, 0, 1000,   0, 0, 1000, 1000 >>]

Triangle2 ==
  [positions |-> << -300, -300, -2000,   700, -300, -2000,   200, 700, -2000 >>,
   colors    |-> << 0, 0, 1000, 1000,   0, 1000, 1000, 1000,   1000, 0, 0, 1000 >>]

\* the two triangles listed nearer one first
trianglesData_nearFirst == << Triangle2, Triangle1 >>

\* trianglesData of the multi-triangle script
trianglesData == << Triangle1, Triangle2 >>

\* triangleData of the single-triangle scripts
triangleData == Triangle1

(* ------------------------------ gl-matrix ------------------------------ *)

FixMul(a, b) == (a * b) \div Fix

\* mat4.create(): the identity, column-major
Mat4Create ==
  << Fix, 0, 0, 0,   0, Fix, 0, 0,   0, 0, Fix, 0,   0, 0, 0, Fix >>

\* mat4.perspective(out, fovy, aspect, near, far) with aspect = width / height
Mat4Perspective(width, height) ==
  << (CotHalfFov * height) \div width, 0, 0, 0,
     0, CotHalfFov, 0, 0,
     0, 0, 0 - (((Far + Near) * Fix) \div (Far - Near)), 0 - Fix,
     0, 0, 0 - (((2 * Far) * Near) \div (Far - Near)), 0 >>

\* mat4.translate(out, a, v) with out === a
Mat4Translate(a, v) ==
  [i \in 1..16 |->
     IF i <= 12 THEN a[i]
     ELSE FixMul(a[i - 12], v[1]) + FixMul(a[i - 8], v[2])
          + FixMul(a[i - 4], v[3]) + a[i]]

\* m * v for a column-major 4x4 matrix and a vec4
MatVec(m, v) ==
  [r \in 1..4 |->
     FixMul(m[r], v[1]) + FixMul(m[4 + r], v[2])
     + FixMul(m[8 + r], v[3]) + FixMul(m[12 + r], v[4])]

projectionMatrix(canvas) == Mat4Perspective(canvas.width, canvas.height)

modelViewMatrix == Mat4Translate(Mat4Create, << 0, 0, CameraZ >>)

ZeroMatrix == [i \in 1..16 |-> 0]

(* --------------------------- WebGL backend ----------------------------- *)

Pixels == { << i * GridStep, j * GridStep >> : i \in -GridN..GridN, j \in -GridN..GridN }

\* a pixel never drawn: background of the given clear colour
Background(rgba) == [pos |-> NULL, col |-> NULL, rgba |-> rgba]

AttribLocs == {0, 1}
UniformLocs == {0, 1}

NoLocs ==
  [aVertexPosition |-> NoLocation, aVertexColor |-> NoLocation,
   uProjectionMatrix |-> NoLocation, uModelViewMatrix |-> NoLocation]

\* the state of a context as canvas.getContext returns it
InitGL ==
  [next        |-> 1,
   shaders     |-> {},
   compiled    |-> {},
   programs    |-> {},
   attached    |-> {},
   linked      |-> {},
   locs        |-> NoLocs,
   buffers     |-> {},
   data        |-> << >>,
   arrayBuffer |-> NULL,
   attrib      |-> [l \in AttribLocs |-> [buf |-> NULL, size |-> 4, enabled |-> FALSE]],
   current     |-> NULL,
   uniforms    |-> [l \in UniformLocs |-> ZeroMatrix],
   clearColor  |-> << 0, 0, 0, 0 >>,
   color       |-> [p \in Pixels |-> Background(<< 0, 0, 0, 0 >>)],
   depth       |-> [p \in Pixels |-> Fix],
   depthTest   |-> FALSE,
   err         |-> "NO_ERROR"]

\* the machine a script step runs on: backend state, calls issued, last return
\* value, and whether an exception is propagating
Machine(g) == [g |-> g, log |-> << >>, ret |-> NULL, thrown |-> FALSE]

Call(op, s, args, ret) == [op |-> op, s |-> s, a |-> args, r |-> ret]

Emit(m, op, s, args, ret, g2) ==
  IF m.thrown THEN m
  ELSE [g |-> g2, log |-> Append(m.log, Call(op, s, args, ret)),
        ret |-> ret, thrown |-> FALSE]

\* the call is issued and raises a TypeError
Throw(m, op, s, args) ==
  IF m.thrown THEN m
  ELSE [g |-> m.g, log |-> Append(m.log, Call(op, s, args, NULL)),
        ret |-> NULL, thrown |-> TRUE]

SetErr(g, e) == IF g.err = "NO_ERROR" THEN [g EXCEPT !.err = e] ELSE g

\* a null object argument: a TypeError where the binding rejects null for a
\* non-nullable parameter, INVALID_VALUE where it passes null to the backend
NullArg(m, policy, op, s, args, ret) ==
  IF policy = "throw" THEN Throw(m, op, s, args)
  ELSE Emit(m, op, s, args, ret, SetErr(m.g, "INVALID_VALUE"))

glCreateShader(m, type) ==
  LET h == m.g.next IN
  Emit(m, "createShader", "", << type >>, h,
       [m.g EXCEPT !.next = h + 1, !.shaders = @ \cup {[h |-> h, type |-> type]}])

glShaderSource(m, shader, source) ==
  Emit(m, "shaderSource", source, << shader >>, NULL, m.g)

glCompileShader(m, shader, ok) ==
  Emit(m, "compileShader", "", << shader >>, NULL,
       IF ok THEN [m.g EXCEPT !.compiled = @ \cup {shader}] ELSE m.g)

glGetShaderParameter(m, shader, pname) ==
  Emit(m, "getShaderParameter", "", << shader, pname >>,
       IF shader \in m.g.compiled THEN 1 ELSE 0, m.g)

glGetShaderInfoLog(m, shader) ==
  Emit(m, "getShaderInfoLog", "", << shader >>, NULL, m.g)

glDeleteShader(m, shader) ==
  Emit(m, "deleteShader", "", << shader >>, NULL,
       [m.g EXCEPT !.shaders = { x \in @ : x.h # shader },
                   !.compiled = @ \ {shader}])

glCreateProgram(m) ==
  LET h == m.g.next IN
  Emit(m, "createProgram", "", << >>, h,
       [m.g EXCEPT !.next = h + 1, !.programs = @ \cup {h}])

glAttachShader(m, policy, prog, shader) ==
  IF shader = NULL \/ prog = NULL
  THEN NullArg(m, policy, "attachShader", "", << prog, shader >>, NULL)
  ELSE Emit(m, "attachShader", "", << prog, shader >>, NULL,
            [m.g EXCEPT !.attached = @ \cup {<< prog, shader >>}])

\* a program links when a compiled shader of each stage is attached and the
\* backend's linker accepts the pair; linking assigns the locations
Linkable(g, prog) ==
  /\ \E x \in g.shaders : x.type = VERTEX_SHADER /\ x.h \in g.compiled
                          /\ << prog, x.h >> \in g.attached
  /\ \E x \in g.shaders : x.type = FRAGMENT_SHADER /\ x.h \in g.compiled
                          /\ << prog, x.h >> \in g.attached

glLinkProgram(m, prog, ok, locs) ==
  Emit(m, "linkProgram", "", << prog >>, NULL,
       IF ok /\ Linkable(m.g, prog)
       THEN [m.g EXCEPT !.linked = @ \cup {prog}, !.locs = locs]
       ELSE m.g)

glGetProgramParameter(m, prog, pname) ==
  Emit(m, "getProgramParameter", "", << prog, pname >>,
       IF prog \in m.g.linked THEN 1 ELSE 0, m.g)

glGetProgramInfoLog(m, prog) ==
  Emit(m, "getProgramInfoLog", "", << prog >>, NULL, m.g)

glGetAttribLocation(m, policy, prog, name) ==
  IF prog = NULL
  THEN NullArg(m, policy, "getAttribLocation", name, << prog >>, NoLocation)
  ELSE IF prog \notin m.g.linked
  THEN Emit(m, "getAttribLocation", name, << prog >>, NoLocation,
            SetErr(m.g, "INVALID_OPERATION"))
  ELSE Emit(m, "getAttribLocation", name, << prog >>, m.g.locs[name], m.g)

glGetUniformLocation(m, policy, prog, name) ==
  IF prog = NULL
  THEN NullArg(m, policy, "getUniformLocation", name, << prog >>, NoLocation)
  ELSE IF prog \notin m.g.linked
  THEN Emit(m, "getUniformLocation", name, << prog >>, NoLocation,
            SetErr(m.g, "INVALID_OPERATION"))
  ELSE Emit(m, "getUniformLocation", name, << prog >>, m.g.locs[name], m.g)

glCreateBuffer(m) ==
  LET h == m.g.next IN
  Emit(m, "createBuffer", "", << >>, h,
       [m.g EXCEPT !.next = h + 1, !.buffers = @ \cup {h},
                   !.data = (h :> << >>) @@ @])

glBindBuffer(m, target, buffer) ==
  Emit(m, "bindBuffer", "", << target, buffer >>, NULL,
       [m.g EXCEPT !.arrayBuffer = buffer])

glBufferData(m, target, data, usage) ==
  Emit(m, "bufferData", "", << target, usage >> \o data, NULL,
       IF m.g.arrayBuffer = NULL THEN SetErr(m.g, "INVALID_OPERATION")
       ELSE [m.g EXCEPT !.data[m.g.arrayBuffer] = data])

glClearColor(m, r, gg, b, a) ==
  Emit(m, "clearColor", "", << r, gg, b, a >>, NULL,
       [m.g EXCEPT !.clearColor = << r, gg, b, a >>])

\* mask is the set of buffer bits
glClear(m, mask) ==
  Emit(m, "clear", "", << IF COLOR_BUFFER_BIT \in mask THEN COLOR_BUFFER_BIT ELSE 0,
                          IF DEPTH_BUFFER_BIT \in mask THEN DEPTH_BUFFER_BIT ELSE 0 >>, NULL,
       [m.g EXCEPT
          !.color = IF COLOR_BUFFER_BIT \in mask
                    THEN [p \in Pixels |-> Background(m.g.clearColor)] ELSE @,
          !.depth = IF DEPTH_BUFFER_BIT \in mask
                    THEN [p \in Pixels |-> Fix] ELSE @])

glUseProgram(m, prog) ==
  Emit(m, "useProgram", "", << prog >>, NULL,
       IF prog = NULL \/ prog \in m.g.linked THEN [m.g EXCEPT !.current = prog]
       ELSE SetErr(m.g, "INVALID_OPERATION"))

glVertexAttribPointer(m, index, size, type, normalized, stride, offset) ==
  Emit(m, "vertexAttribPointer", "",
       << index, size, type, IF normalized THEN 1 ELSE 0, stride, offset >>, NULL,
       IF index \notin AttribLocs THEN SetErr(m.g, "INVALID_VALUE")
       ELSE IF m.g.arrayBuffer = NULL /\ offset # 0
       THEN SetErr(m.g, "INVALID_OPERATION")
       ELSE [m.g EXCEPT !.attrib[index].buf = m.g.arrayBuffer,
                        !.attrib[index].size = size])

glEnableVertexAttribArray(m, index) ==
  Emit(m, "enableVertexAttribArray", "", << index >>, NULL,
       IF index \notin AttribLocs THEN SetErr(m.g, "INVALID_VALUE")
       ELSE [m.g EXCEPT !.attrib[index].enabled = TRUE])

\* a null location is ignored silently
glUniformMatrix4fv(m, location, transpose, value) ==
  Emit(m, "uniformMatrix4fv", "",
       << location, IF transpose THEN 1 ELSE 0 >> \o value, NULL,
       IF location = NoLocation THEN m.g
       ELSE IF m.g.current = NULL THEN SetErr(m.g, "INVALID_OPERATION")
       ELSE [m.g EXCEPT !.uniforms[location] = value])

(* ------------------------------ drawArrays ----------------------------- *)

\* attribute `index` of vertex i (from 0): the array element padded to a vec4,
\* or the constant attribute (0, 0, 0, 1) when the array is disabled
VertexAt(g, index, i) ==
  LET a == g.attrib[index] IN
  [k \in 1..4 |->
     IF a.enabled /\ k <= a.size THEN g.data[a.buf][i * a.size + k]
     ELSE IF k = 4 THEN Fix ELSE 0]

\* every enabled array has a buffer holding the vertices first..first+count-1
DrawValid(g, first, count) ==
  /\ g.current # NULL
  /\ g.current \in g.linked
  /\ \A l \in AttribLocs :
       g.attrib[l].enabled =>
         /\ g.attrib[l].buf \in g.buffers
         /\ Len(g.data[g.attrib[l].buf]) >= (first + count) * g.attrib[l].size

\* the vertex shader: gl_Position = uProjectionMatrix * uModelViewMatrix * aVertexPosition
ClipPos(g, i) ==
  MatVec(g.uniforms[g.locs.uProjectionMatrix],
         MatVec(g.uniforms[g.locs.uModelViewMatrix],
                VertexAt(g, g.locs.aVertexPosition, i)))

\* perspective division, for w > 0
Ndc(c) == << (c[1] * Fix) \div c[4], (c[2] * Fix) \div c[4], (c[3] * Fix) \div c[4] >>

Edge(a, b, p) == (b[1] - a[1]) * (p[2] - a[2]) - (b[2] - a[2]) * (p[1] - a[1])

\* the sample point p lies in the triangle t (either winding: no face culling)
Covers(t, p) ==
  LET e1 == Edge(t[1], t[2], p)
      e2 == Edge(t[2], t[3], p)
      e3 == Edge(t[3], t[1], p)
  IN /\ Edge(t[1], t[2], t[3]) # 0
     /\ \/ e1 >= 0 /\ e2 >= 0 /\ e3 >= 0
        \/ e1 <= 0 /\ e2 <= 0 /\ e3 <= 0

\* rasterise the triangle of the vertices i, i+1, i+2. A fragment is recorded
\* by the buffers its position and its (interpolated) colour were fetched from.
\* Its depth is that of the first vertex: the scene's triangles are parallel to
\* the view plane. With the depth test disabled every fragment is written and
\* the depth buffer is left alone; with it enabled the nearer fragment wins.
\* write the fragments of the triangle t (in NDC): every sample point it covers
\* within the depth range, and that passes the depth test when it is enabled
Rasterise(g, t, frag) ==
  [g EXCEPT
     !.color = [p \in Pixels |->
                  IF /\ Covers(t, p)
                     /\ t[1][3] >= 0 - Fix
                     /\ t[1][3] <= Fix
                     /\ (g.depthTest => t[1][3] < g.depth[p])
                  THEN frag ELSE g.color[p]],
     !.depth = [p \in Pixels |->
                  IF /\ g.depthTest
                     /\ Covers(t, p)
                     /\ t[1][3] >= 0 - Fix
                     /\ t[1][3] < g.depth[p]
                  THEN t[1][3] ELSE g.depth[p]]]

\* clip the triangle c (in clip coordinates) and rasterise it; CHOOSE over a
\* singleton evaluates the projected triangle once
ClipAndRasterise(g, c, frag) ==
  IF \E k \in 1..3 : c[k][4] <= 0 THEN g
  ELSE CHOOSE r \in { Rasterise(g, t, frag) : t \in {[k \in 1..3 |-> Ndc(c[k])]} } : TRUE

DrawTriangle(g, i) ==
  CHOOSE r \in
    { ClipAndRasterise(g, c,
                       [pos  |-> g.attrib[g.locs.aVertexPosition].buf,
                        col  |-> g.attrib[g.locs.aVertexColor].buf,
                        rgba |-> << >>]) :
      c \in {[k \in 1..3 |-> ClipPos(g, i + k - 1)]} } : TRUE

RECURSIVE DrawTriangles(_, _, _)
DrawTriangles(g, first, n) ==
  IF n <= 0 THEN g
  ELSE DrawTriangles(DrawTriangle(g, first), first + 3, n - 1)

glDrawArrays(m, mode, first, count) ==
  Emit(m, "drawArrays", "", << mode, first, count >>, NULL,
       CHOOSE r \in
         { IF ~ DrawValid(g, first, count) THEN SetErr(g, "INVALID_OPERATION")
           ELSE DrawTriangles(g, first, count \div 3) : g \in {m.g} } : TRUE)

(* ------------------------------ the script ----------------------------- *)

Ret(m, v) == IF m.thrown THEN m ELSE [m EXCEPT !.ret = v]

\* createShader that returns null on a failed compile without releasing the handle
createShader_noDelete(m, type, source, ok) ==
  LET m1 == glCreateShader(m, type)
      shader == m1.ret
      m2 == glShaderSource(m1, shader, source)
      m3 == glCompileShader(m2, shader, ok)
      m4 == glGetShaderParameter(m3, shader, COMPILE_STATUS)
  IN IF m4.ret = 0
     THEN Ret(glGetShaderInfoLog(m4, shader), NULL)
     ELSE Ret(m4, shader)

\* createShader(gl, type, source); ok is the compile status the backend reports
createShader(m, type, source, ok) ==
  LET m1 == glCreateShader(m, type)
      shader == m1.ret
      m2 == glShaderSource(m1, shader, source)
      m3 == glCompileShader(m2, shader, ok)
      m4 == glGetShaderParameter(m3, shader, COMPILE_STATUS)
  IN IF m4.ret = 0
     THEN Ret(glDeleteShader(glGetShaderInfoLog(m4, shader), shader), NULL)
     ELSE Ret(m4, shader)

\* createProgram(gl, vertexShader, fragmentShader); ok is the backend linker's
\* verdict on a well-formed pair, locs the locations it assigns
createProgram(m, policy, vs, fs, ok, locs) ==
  LET m1 == glCreateProgram(m)
      prog == m1.ret
      m2 == glAttachShader(m1, policy, prog, vs)
      m3 == glAttachShader(m2, policy, prog, fs)
      m4 == glLinkProgram(m3, prog, ok, locs)
      m5 == glGetProgramParameter(m4, prog, LINK_STATUS)
  IN IF m5.ret = 0
     THEN Ret(glGetProgramInfoLog(m5, prog), NULL)
     ELSE Ret(m5, prog)

\* the four lookups of the programInfo literal, in evaluation order
LookupLocations(m, policy, prog) ==
  LET m1 == glGetAttribLocation(m, policy, prog, "aVertexPosition")
      m2 == glGetAttribLocation(m1, policy, prog, "aVertexColor")
      m3 == glGetUniformLocation(m2, policy, prog, "uProjectionMatrix")
      m4 == glGetUniformLocation(m3, policy, prog, "uModelViewMatrix")
  IN [m |-> m4,
      info |-> [vertexPosition |-> m1.ret, vertexColor |-> m2.ret,
                projectionMatrix |-> m3.ret, modelViewMatrix |-> m4.ret]]

\* createBuffer / bindBuffer / bufferData of one array
UploadArray(m, array) ==
  LET m1 == glCreateBuffer(m)
      m2 == glBindBuffer(m1, ARRAY_BUFFER, m1.ret)
      m3 == glBufferData(m2, ARRAY_BUFFER, array, STATIC_DRAW)
  IN Ret(m3, m1.ret)

\* the callback of trianglesData.map: both arrays of one triangle
UploadTriangle(m, data) ==
  LET mp == UploadArray(m, data.positions)
      mc == UploadArray(mp, data.colors)
  IN [m |-> mc,
      buffer |-> [position |-> mp.ret, color |-> mc.ret,
                  vertexCount |-> Len(data.positions) \div 3]]

\* trianglesData.map(...): the machine after, and the buffers array
RECURSIVE MapTriangles(_, _, _)
MapTriangles(m, datas, acc) ==
  IF datas = << >> THEN [m |-> m, buffers |-> acc]
  ELSE LET u == UploadTriangle(m, Head(datas))
       IN MapTriangles(u.m, Tail(datas), Append(acc, u.buffer))

\* drawScene up to and including useProgram
DrawSetup(m, canvas, prog) ==
  glUseProgram(
    glClear(glClearColor(m, 0, 0, 0, Fix), {COLOR_BUFFER_BIT, DEPTH_BUFFER_BIT}),
    prog)

\* a draw step that allocates a scratch buffer on every call
DrawBuffer_leak(m, canvas, info, position, color, count) ==
  LET m0 == glCreateBuffer(m)
      m1 == glBindBuffer(m0, ARRAY_BUFFER, position)
      m2 == glVertexAttribPointer(m1, info.vertexPosition, PositionSize, FLOAT, FALSE, 0, 0)
      m3 == glEnableVertexAttribArray(m2, info.vertexPosition)
      m4 == glBindBuffer(m3, ARRAY_BUFFER, color)
      m5 == glVertexAttribPointer(m4, info.vertexColor, ColorSize, FLOAT, FALSE, 0, 0)
      m6 == glEnableVertexAttribArray(m5, info.vertexColor)
      m7 == glUniformMatrix4fv(m6, info.projectionMatrix, FALSE, projectionMatrix(canvas))
      m8 == glUniformMatrix4fv(m7, info.modelViewMatrix, FALSE, modelViewMatrix)
  IN glDrawArrays(m8, TRIANGLES, 0, count)

\* a draw step that uploads the positions again on every call
DrawBuffer_reupload(m, canvas, info, position, color, count) ==
  LET m0 == glBindBuffer(m, ARRAY_BUFFER, position)
      m1 == glBufferData(m0, ARRAY_BUFFER, triangleData.positions, STATIC_DRAW)
      m2 == glVertexAttribPointer(m1, info.vertexPosition, PositionSize, FLOAT, FALSE, 0, 0)
      m3 == glEnableVertexAttribArray(m2, info.vertexPosition)
      m4 == glBindBuffer(m3, ARRAY_BUFFER, color)
      m5 == glVertexAttribPointer(m4, info.vertexColor, ColorSize, FLOAT, FALSE, 0, 0)
      m6 == glEnableVertexAttribArray(m5, info.vertexColor)
      m7 == glUniformMatrix4fv(m6, info.projectionMatrix, FALSE, projectionMatrix(canvas))
      m8 == glUniformMatrix4fv(m7, info.modelViewMatrix, FALSE, modelViewMatrix)
  IN glDrawArrays(m8, TRIANGLES, 0, count)

\* a draw step that issues the draw call before the uniform uploads
DrawBuffer_drawFirst(m, canvas, info, position, color, count) ==
  LET m1 == glBindBuffer(m, ARRAY_BUFFER, position)
      m2 == glVertexAttribPointer(m1, info.vertexPosition, PositionSize, FLOAT, FALSE, 0, 0)
      m3 == glEnableVertexAttribArray(m2, info.vertexPosition)
      m4 == glBindBuffer(m3, ARRAY_BUFFER, color)
      m5 == glVertexAttribPointer(m4, info.vertexColor, ColorSize, FLOAT, FALSE, 0, 0)
      m6 == glEnableVertexAttribArray(m5, info.vertexColor)
      m7 == glDrawArrays(m6, TRIANGLES, 0, count)
      m8 == glUniformMatrix4fv(m7, info.projectionMatrix, FALSE, projectionMatrix(canvas))
  IN glUniformMatrix4fv(m8, info.modelViewMatrix, FALSE, modelViewMatrix)

\* the attribute bindings, uniform uploads and draw call of one triangle
DrawBuffer(m, canvas, info, position, color, count) ==
  LET m1 == glBindBuffer(m, ARRAY_BUFFER, position)
      m2 == glVertexAttribPointer(m1, info.vertexPosition, PositionSize, FLOAT, FALSE, 0, 0)
      m3 == glEnableVertexAttribArray(m2, info.vertexPosition)
      m4 == glBindBuffer(m3, ARRAY_BUFFER, color)
      m5 == glVertexAttribPointer(m4, info.vertexColor, ColorSize, FLOAT, FALSE, 0, 0)
      m6 == glEnableVertexAttribArray(m5, info.vertexColor)
      m7 == glUniformMatrix4fv(m6, info.projectionMatrix, FALSE, projectionMatrix(canvas))
      m8 == glUniformMatrix4fv(m7, info.modelViewMatrix, FALSE, modelViewMatrix)
  IN glDrawArrays(m8, TRIANGLES, 0, count)

RECURSIVE ForEachBuffer(_, _, _, _)

\* a loop that visits the buffers last to first
RECURSIVE ForEachBuffer_reverse(_, _, _, _)
ForEachBuffer_reverse(m, canvas, info, bufs) ==
  IF bufs = << >> THEN m
  ELSE LET b == bufs[Len(bufs)]
       IN ForEachBuffer_reverse(
            DrawBuffer(m, canvas, info, b.position, b.color, b.vertexCount),
            canvas, info, SubSeq(bufs, 1, Len(bufs) - 1))

\* buffers.forEach(...)
ForEachBuffer(m, canvas, info, bufs) ==
  IF bufs = << >> THEN m
  ELSE ForEachBuffer(
         DrawBuffer(m, canvas, info, Head(bufs).position, Head(bufs).color,
                    Head(bufs).vertexCount),
         canvas, info, Tail(bufs))

\* drawScene() of the multi-triangle script
drawSceneMulti(m, canvas, prog, info, bufs) ==
  ForEachBuffer(DrawSetup(m, canvas, prog), canvas, info, bufs)

\* drawScene() of the single-triangle scripts
drawSceneSingle(m, canvas, prog, info, position, color) ==
  DrawBuffer(DrawSetup(m, canvas, prog), canvas, info, position, color,
             LiteralVertexCount)

(* ------------------------------- state --------------------------------- *)

VARIABLES
  variant,        \* which script runs
  supported,      \* the context ids the canvas supports
  policy,         \* how the binding treats a null object argument
  canvas,         \* [width, height] of the canvas
  pc,             \* the statement the script is at
  error,          \* the exception that ended the script, or "none"
  requests,       \* the context ids passed to canvas.getContext, in order
  gl,             \* the backend state behind the context
  vertexShader, fragmentShader, program, programInfo,
  buffers,        \* the multi-triangle script's buffers array
  positionBuffer, colorBuffer,   \* the single-triangle scripts' globals
  trace,          \* every backend call of the run, in order
  frames,         \* drawScene invocations so far
  lastFrame, prevFrame           \* the last two drawScene invocations

vars ==
  << variant, supported, policy, canvas, pc, error, requests, gl, vertexShader,
     fragmentShader, program, programInfo, buffers, positionBuffer, colorBuffer,
     trace, frames, lastFrame, prevFrame >>

NoInfo ==
  [vertexPosition |-> NoLocation, vertexColor |-> NoLocation,
   projectionMatrix |-> NoLocation, modelViewMatrix |-> NoLocation]

NoFrame ==
  [calls |-> << >>, projection |-> << >>, modelView |-> << >>,
   width |-> 0, height |-> 0, after |-> InitGL]

\* the locations a linker may assign to the two attributes and two uniforms
LocAssignments ==
  { [aVertexPosition |-> a, aVertexColor |-> 1 - a,
     uProjectionMatrix |-> u, uModelViewMatrix |-> 1 - u] : a \in {0, 1}, u \in {0, 1} }

Init ==
  /\ variant \in Variants
  /\ supported \in SUBSET ContextIds
  /\ policy \in {"throw", "error"}
  /\ canvas \in CanvasSizes
  /\ pc = "getContext"
  /\ error = "none"
  /\ requests = << >>
  /\ gl = InitGL
  /\ vertexShader = NULL
  /\ fragmentShader = NULL
  /\ program = NULL
  /\ programInfo = NoInfo
  /\ buffers = << >>
  /\ positionBuffer = NULL
  /\ colorBuffer = NULL
  /\ trace = << >>
  /\ frames = 0
  /\ lastFrame = NoFrame
  /\ prevFrame = NoFrame

\* context acquisition that logs the missing context and carries on
GetContext_noThrow ==
  /\ pc = "getContext"
  /\ requests' = Append(requests, RequestedContext)
  /\ pc' = "vertexShader"
  /\ error' = IF RequestedContext \in supported THEN error ELSE "ContextUnavailable"
  /\ UNCHANGED << variant, supported, policy, canvas, gl, vertexShader,
                  fragmentShader, program, programInfo, buffers, positionBuffer,
                  colorBuffer, trace, frames, lastFrame, prevFrame >>

\* context acquisition that falls back to the other context id
GetContext_fallback ==
  /\ pc = "getContext"
  /\ requests' = IF RequestedContext \in supported
                 THEN Append(requests, RequestedContext)
                 ELSE requests \o << RequestedContext, "experimental-webgl" >>
  /\ IF supported # {}
     THEN pc' = "vertexShader" /\ error' = error
     ELSE pc' = "halted" /\ error' = "ContextUnavailable"
  /\ UNCHANGED << variant, supported, policy, canvas, gl, vertexShader,
                  fragmentShader, program, programInfo, buffers, positionBuffer,
                  colorBuffer, trace, frames, lastFrame, prevFrame >>

\* canvas.getContext("webgl"); if (!gl) throw
GetContext ==
  /\ pc = "getContext"
  /\ requests' = Append(requests, RequestedContext)
  /\ IF RequestedContext \in supported
     THEN pc' = "vertexShader" /\ error' = error
     ELSE pc' = "halted" /\ error' = "ContextUnavailable"
  /\ UNCHANGED << variant, supported, policy, canvas, gl, vertexShader,
                  fragmentShader, program, programInfo, buffers, positionBuffer,
                  colorBuffer, trace, frames, lastFrame, prevFrame >>

\* const vertexShader = createShader(gl, gl.VERTEX_SHADER, vertexShaderSource)
CompileVertexShader ==
  /\ pc = "vertexShader"
  /\ \E ok \in BOOLEAN :
       LET m == createShader(Machine(gl), VERTEX_SHADER, "vertexShaderSource", ok)
       IN /\ gl' = m.g
          /\ vertexShader' = m.ret
          /\ trace' = trace \o m.log
  /\ pc' = "fragmentShader"
  /\ UNCHANGED << variant, supported, policy, canvas, error, requests,
                  fragmentShader, program, programInfo, buffers, positionBuffer,
                  colorBuffer, frames, lastFrame, prevFrame >>

\* const fragmentShader = createShader(gl, gl.FRAGMENT_SHADER, fragmentShaderSource)
CompileFragmentShader ==
  /\ pc = "fragmentShader"
  /\ \E ok \in BOOLEAN :
       LET m == createShader(Machine(gl), FRAGMENT_SHADER, "fragmentShaderSource", ok)
       IN /\ gl' = m.g
          /\ fragmentShader' = m.ret
          /\ trace' = trace \o m.log
  /\ pc' = "program"
  /\ UNCHANGED << variant, supported, policy, canvas, error, requests,
                  vertexShader, program, programInfo, buffers, positionBuffer,
                  colorBuffer, frames, lastFrame, prevFrame >>

\* const program = createProgram(gl, vertexShader, fragmentShader)
LinkProgram ==
  /\ pc = "program"
  /\ \E ok \in BOOLEAN, locs \in LocAssignments :
       LET m == createProgram(Machine(gl), policy, vertexShader, fragmentShader, ok, locs)
       IN /\ gl' = m.g
          /\ trace' = trace \o m.log
          /\ IF m.thrown
             THEN pc' = "halted" /\ error' = "TypeError" /\ program' = program
             ELSE pc' = "programInfo" /\ error' = error /\ program' = m.ret
  /\ UNCHANGED << variant, supported, policy, canvas, requests, vertexShader,
                  fragmentShader, programInfo, buffers, positionBuffer,
                  colorBuffer, frames, lastFrame, prevFrame >>

\* const programInfo = { ... }
ResolveLocations ==
  /\ pc = "programInfo"
  /\ LET r == LookupLocations(Machine(gl), policy, program)
     IN /\ gl' = r.m.g
        /\ trace' = trace \o r.m.log
        /\ IF r.m.thrown
           THEN pc' = "halted" /\ error' = "TypeError" /\ programInfo' = programInfo
           ELSE pc' = "buffers" /\ error' = error /\ programInfo' = r.info
  /\ UNCHANGED << variant, supported, policy, canvas, requests, vertexShader,
                  fragmentShader, program, buffers, positionBuffer, colorBuffer,
                  frames, lastFrame, prevFrame >>

\* const buffers = trianglesData.map(...), or the two uploads of triangleData
CreateBuffers ==
  /\ pc = "buffers"
  /\ IF variant = "multi"
     THEN LET r == MapTriangles(Machine(gl), trianglesData, << >>)
          IN /\ gl' = r.m.g
             /\ trace' = trace \o r.m.log
             /\ buffers' = r.buffers
             /\ UNCHANGED << positionBuffer, colorBuffer >>
     ELSE LET mp == UploadArray(Machine(gl), triangleData.positions)
              mc == UploadArray(mp, triangleData.colors)
          IN /\ gl' = mc.g
             /\ trace' = trace \o mc.log
             /\ positionBuffer' = mp.ret
             /\ colorBuffer' = mc.ret
             /\ UNCHANGED buffers
  /\ pc' = IF variant = "upload" THEN "done" ELSE "drawScene"
  /\ UNCHANGED << variant, supported, policy, canvas, error, requests,
                  vertexShader, fragmentShader, program, programInfo, frames,
                  lastFrame, prevFrame >>

\* drawScene(): the script's own call, and any later call of the global function
DrawScene ==
  /\ pc \in {"drawScene", "idle"}
  /\ frames < MaxFrames
  /\ LET m == IF variant = "multi"
              THEN drawSceneMulti(Machine(gl), canvas, program, programInfo, buffers)
              ELSE drawSceneSingle(Machine(gl), canvas, program, programInfo,
                                   positionBuffer, colorBuffer)
     IN /\ gl' = m.g
        /\ trace' = trace \o m.log
        /\ lastFrame' = [calls |-> m.log,
                         projection |-> projectionMatrix(canvas),
                         modelView |-> modelViewMatrix,
                         width |-> canvas.width, height |-> canvas.height,
                         after |-> m.g]
  /\ prevFrame' = lastFrame
  /\ frames' = frames + 1
  /\ pc' = "idle"
  /\ UNCHANGED << variant, supported, policy, canvas, error, requests,
                  vertexShader, fragmentShader, program, programInfo, buffers,
                  positionBuffer, colorBuffer >>

\* the host page resizes the canvas between frames: the drawing buffer is
\* reallocated and cleared
Resize ==
  /\ pc = "idle"
  /\ frames < MaxFrames
  /\ \E c \in CanvasSizes :
       /\ c # canvas
       /\ canvas' = c
  /\ gl' = [gl EXCEPT !.color = InitGL.color, !.depth = InitGL.depth]
  /\ UNCHANGED << variant, supported, policy, pc, error, requests, vertexShader,
                  fragmentShader, program, programInfo, buffers, positionBuffer,
                  colorBuffer, trace, frames, lastFrame, prevFrame >>

Next ==
  \/ GetContext
  \/ CompileVertexShader
  \/ CompileFragmentShader
  \/ LinkProgram
  \/ ResolveLocations
  \/ CreateBuffers
  \/ DrawScene
  \/ Resize

Spec == Init /\ [][Next]_vars

(* ------------------------------ properties ----------------------------- *)

\* some call of the run so far has the operation op
Called(op) == \E i \in 1..Len(trace) : trace[i].op = op

\* the indices of the calls of c with operation op, ascending
RECURSIVE IndicesFrom(_, _, _)
IndicesFrom(c, op, i) ==
  IF i > Len(c) THEN << >>
  ELSE IF c[i].op = op THEN << i >> \o IndicesFrom(c, op, i + 1)
  ELSE IndicesFrom(c, op, i + 1)

Indices(c, op) == IndicesFrom(c, op, 1)

\* C1: when the context request yields no context, the script halts with
\* ContextUnavailable and the run issues no backend call at all: no shader,
\* program or buffer exists, nothing is uploaded and drawScene never runs.
C1_NoCallsWithoutContext ==
  (pc # "getContext" /\ RequestedContext \notin supported) =>
     /\ pc = "halted"
     /\ error = "ContextUnavailable"
     /\ trace = << >>
     /\ gl = InitGL
     /\ frames = 0

C1_Witness ==
  pc = "halted" /\ error = "ContextUnavailable" /\ requests # << >>

\* a createShader call has returned null
ShaderFailed ==
  \/ pc \notin {"getContext", "vertexShader"} /\ error # "ContextUnavailable"
     /\ vertexShader = NULL
  \/ pc \notin {"getContext", "vertexShader", "fragmentShader"}
     /\ error # "ContextUnavailable" /\ fragmentShader = NULL

\* createProgram did not produce a program
ProgramFailed ==
  /\ pc \notin {"getContext", "vertexShader", "fragmentShader", "program"}
  /\ error # "ContextUnavailable"
  /\ program = NULL

\* C2: a failed compile or link is terminal: after createShader returned null
\* createProgram is never invoked, and after a null shader or a null program
\* no location lookup, buffer upload or drawArrays is issued.
C2_FailureIsTerminal ==
  /\ ShaderFailed =>
       ~ (Called("createProgram") \/ Called("attachShader") \/ Called("linkProgram"))
  /\ (ShaderFailed \/ ProgramFailed) =>
       ~ (Called("getAttribLocation") \/ Called("getUniformLocation")
          \/ Called("bufferData") \/ Called("drawArrays"))

\* the script variable the createShader call of a stage is assigned to
ShaderVar(type) == IF type = VERTEX_SHADER THEN vertexShader ELSE fragmentShader

\* how often deleteShader(h) was called
Deletions(h) ==
  Cardinality({ i \in 1..Len(trace) : trace[i].op = "deleteShader" /\ trace[i].a = << h >> })

\* C3: createShader deletes the handle it created exactly once and returns null
\* when the backend reports compile status false; it returns that handle,
\* undeleted, when the status is true; and it never ends the run.
C3_CreateShaderResult ==
  /\ \A i \in 1..Len(trace) :
       trace[i].op = "getShaderParameter" =>
         LET h == trace[i].a[1]
             type == trace[i - 3].a[1]
         IN /\ trace[i - 3].op = "createShader"
            /\ trace[i - 3].r = h
            /\ IF trace[i].r = 0
               THEN /\ Deletions(h) = 1
                    /\ ShaderVar(type) = NULL
                    /\ \A x \in gl.shaders : x.h # h
               ELSE /\ Deletions(h) = 0
                    /\ ShaderVar(type) = h
                    /\ [h |-> h, type |-> type] \in gl.shaders
  /\ pc \in {"fragmentShader", "program"} => error = "none"

C3_Witness ==
  /\ pc = "program"
  /\ vertexShader = NULL
  /\ fragmentShader # NULL
  /\ Deletions(1) = 1
  /\ Deletions(fragmentShader) = 0

C5_DrawSceneIdempotent ==
  (/\ frames >= 2
   /\ prevFrame.width = lastFrame.width
   /\ prevFrame.height = lastFrame.height) =>
     /\ lastFrame.projection = prevFrame.projection
     /\ lastFrame.modelView = prevFrame.modelView
     /\ lastFrame.calls = prevFrame.calls
     /\ lastFrame.after = prevFrame.after

C5_Witness ==
  /\ frames >= 2
  /\ prevFrame.width = lastFrame.width
  /\ prevFrame.height = lastFrame.height
  /\ program # NULL
  /\ \E p \in Pixels : lastFrame.after.color[p].pos # NULL
  /\ \E p \in Pixels : InitGL.color[p] # lastFrame.after.color[p]

\* a triangle of the scene in normalised device coordinates, as the vertex
\* shader places it on a surface of the given size
SceneNdc(data, size) ==
  [k \in 1..3 |->
     Ndc(MatVec(projectionMatrix(size),
                MatVec(modelViewMatrix,
                       << data.positions[3 * k - 2], data.positions[3 * k - 1],
                          data.positions[3 * k], Fix >>)))]

\* the sample points both triangles of the multi-triangle scene cover
Overlap(size) ==
  UNION { { p \in Pixels : Covers(t1, p) /\ Covers(t2, p) } :
          t1 \in {SceneNdc(Triangle1, size)}, t2 \in {SceneNdc(Triangle2, size)} }

\* C6: in the two-triangle script, after drawScene every pixel both triangles
\* cover shows the nearer triangle (the one with the larger z, at z = -2).
C6_NearerTriangleShown ==
  (variant = "multi" /\ frames >= 1 /\ program # NULL) =>
     \A p \in Overlap([width |-> lastFrame.width, height |-> lastFrame.height]) :
        LET src == lastFrame.after.color[p].pos
        IN /\ \E k \in 1..Len(buffers) : buffers[k].position = src
           /\ \A k \in 1..Len(buffers) :
                lastFrame.after.data[src][3]
                  >= lastFrame.after.data[buffers[k].position][3]

C6_Witness ==
  /\ variant = "multi"
  /\ frames >= 1
  /\ program # NULL
  /\ Len(buffers) = 2
  /\ \E p \in Overlap([width |-> lastFrame.width, height |-> lastFrame.height]) :
       /\ lastFrame.after.color[p].pos = buffers[2].position
       /\ lastFrame.after.data[buffers[2].position][3] = 0 - 2000
       /\ lastFrame.after.data[buffers[1].position][3] = 0 - 3000
  /\ ~ lastFrame.after.depthTest

\* the GeometryBuffers of the running script with the vertex count it draws
GeometryBuffers ==
  IF variant = "multi" THEN buffers
  ELSE << [position |-> positionBuffer, color |-> colorBuffer,
           vertexCount |-> LiteralVertexCount] >>

\* C7: every GeometryBuffer holds 3 * vertexCount position components and
\* 4 * vertexCount colour components, vertexCount being the count its
\* drawArrays call is given; so positions.length / 3 = colors.length / 4 at
\* upload and at every draw.
C7_ArrayLengths ==
  /\ pc \in {"drawScene", "idle", "done"} =>
       \A k \in 1..Len(GeometryBuffers) :
          LET b == GeometryBuffers[k]
          IN /\ Len(gl.data[b.position]) = 3 * b.vertexCount
             /\ Len(gl.data[b.color]) = 4 * b.vertexCount
             /\ frames >= 1 =>
                  /\ Len(Indices(lastFrame.calls, "drawArrays")) = Len(GeometryBuffers)
                  /\ lastFrame.calls[Indices(lastFrame.calls, "drawArrays")[k]].a[3]
                       = b.vertexCount
  /\ LET u == Indices(trace, "bufferData")
     IN \A j \in 1..Len(u) :
          j % 2 = 0 =>
            4 * (Len(trace[u[j - 1]].a) - 2) = 3 * (Len(trace[u[j]].a) - 2)

C7_Witness ==
  /\ variant = "single"
  /\ frames >= 1
  /\ Len(gl.data[positionBuffer]) = 9
  /\ Len(gl.data[colorBuffer]) = 12
  /\ \E i \in 1..Len(lastFrame.calls) :
       lastFrame.calls[i].op = "drawArrays" /\ lastFrame.calls[i].a[3] = 3

IsPositionBinding(x) ==
  /\ x.op = "vertexAttribPointer"
  /\ x.a[1] = programInfo.vertexPosition
  /\ x.a[2] = PositionSize

IsColorBinding(x) ==
  /\ x.op = "vertexAttribPointer"
  /\ x.a[1] = programInfo.vertexColor
  /\ x.a[2] = ColorSize

IsUpload(x, location, matrix) ==
  /\ x.op = "uniformMatrix4fv"
  /\ x.a[1] = location
  /\ SubSeq(x.a, 3, Len(x.a)) = matrix

\* C8: within an invocation of drawScene the clear of the colour and depth
\* buffers precedes every drawArrays; useProgram precedes every attribute
\* binding, uniform upload and drawArrays; and each drawArrays is preceded,
\* after the previous drawArrays, by the position binding, the colour binding
\* and both matrix uploads.
C8_CallOrder ==
  frames >= 1 =>
    LET c == lastFrame.calls
        d == Indices(c, "drawArrays")
    IN /\ d # << >>
       /\ \E i \in 1..(d[1] - 1) :
            c[i].op = "clear" /\ c[i].a = << COLOR_BUFFER_BIT, DEPTH_BUFFER_BIT >>
       /\ \A i \in 1..Len(c) : c[i].op = "clear" => i < d[1]
       /\ \A j \in 1..Len(c) :
            c[j].op \in {"vertexAttribPointer", "enableVertexAttribArray",
                         "uniformMatrix4fv", "drawArrays"} =>
              \E i \in 1..(j - 1) : c[i].op = "useProgram" /\ c[i].a = << program >>
       /\ \A k \in 1..Len(d) :
            LET between == (IF k = 1 THEN 1 ELSE d[k - 1] + 1)..(d[k] - 1)
            IN /\ \E i \in between : IsPositionBinding(c[i])
               /\ \E i \in between : IsColorBinding(c[i])
               /\ \E i \in between :
                    IsUpload(c[i], programInfo.projectionMatrix, lastFrame.projection)
               /\ \E i \in between :
                    IsUpload(c[i], programInfo.modelViewMatrix, lastFrame.modelView)

C8_Witness ==
  /\ frames >= 1
  /\ variant = "multi"
  /\ program # NULL
  /\ Len(Indices(lastFrame.calls, "drawArrays")) = 2
  /\ lastFrame.calls[Len(lastFrame.calls)].op = "drawArrays"

\* the position of the createBuffer call that returned h
CreatedAt(h) ==
  CHOOSE i \in 1..Len(trace) : trace[i].op = "createBuffer" /\ trace[i].r = h

\* the buffers bound between the calls lo and hi of c, in order
RECURSIVE BoundBetween(_, _, _)
BoundBetween(c, lo, hi) ==
  IF lo >= hi THEN << >>
  ELSE IF c[lo].op = "bindBuffer" THEN << c[lo].a[2] >> \o BoundBetween(c, lo + 1, hi)
  ELSE BoundBetween(c, lo + 1, hi)

\* C9: an invocation of drawScene issues exactly one drawArrays(TRIANGLES, 0, n)
\* for each GeometryBuffer, in the order the buffers were created, n being the
\* buffer's vertex count.
C9_OneDrawPerBuffer ==
  frames >= 1 =>
    LET c == lastFrame.calls
        d == Indices(c, "drawArrays")
    IN /\ Len(d) = Len(GeometryBuffers)
       /\ \A k \in 1..Len(d) :
            LET b == GeometryBuffers[k]
            IN /\ c[d[k]].a = << TRIANGLES, 0, b.vertexCount >>
               /\ 3 * c[d[k]].a[3] = Len(gl.data[b.position])
               /\ BoundBetween(c, IF k = 1 THEN 1 ELSE d[k - 1] + 1, d[k])
                    = << b.position, b.color >>
       /\ \A k \in 1..(Len(GeometryBuffers) - 1) :
            CreatedAt(GeometryBuffers[k].position)
              < CreatedAt(GeometryBuffers[k + 1].position)

C9_Witness ==
  /\ frames >= 2
  /\ variant = "multi"
  /\ Len(buffers) = 2
  /\ Indices(lastFrame.calls, "drawArrays") # << >>
  /\ BoundBetween(lastFrame.calls, 1, Len(lastFrame.calls))
       = << buffers[1].position, buffers[1].color,
            buffers[2].position, buffers[2].color >>

\* the backend's objects and their contents
Resources(g) ==
  [shaders |-> g.shaders, compiled |-> g.compiled, programs |-> g.programs,
   attached |-> g.attached, linked |-> g.linked, locs |-> g.locs,
   buffers |-> g.buffers, data |-> g.data, next |-> g.next]

AllocatingOps ==
  {"createShader", "shaderSource", "compileShader", "deleteShader",
   "createProgram", "attachShader", "linkProgram", "deleteProgram",
   "createBuffer", "bufferData", "bufferSubData", "deleteBuffer"}

\* C10: drawScene allocates, uploads and frees nothing: an invocation issues no
\* create, bufferData or delete call and leaves the backend's shaders,
\* programs, buffers and buffer contents, the location table and the script's
\* handles as they were.
C10_DrawSceneAllocatesNothing ==
  [][frames' = frames + 1 =>
       /\ \A i \in 1..Len(lastFrame'.calls) :
            lastFrame'.calls[i].op \notin AllocatingOps
       /\ Resources(gl') = Resources(gl)
       /\ programInfo' = programInfo
       /\ << program, buffers, positionBuffer, colorBuffer >>'
            = << program, buffers, positionBuffer, colorBuffer >>]_vars

C10_Witness ==
  /\ frames >= 2
  /\ program # NULL
  /\ gl.buffers # {}
  /\ \A b \in gl.buffers : gl.data[b] # << >>
  /\ Resources(lastFrame.after) = Resources(prevFrame.after)

\* the triangle literals the GeometryBuffers were uploaded from, in order
GeometryData ==
  IF variant = "multi" THEN trianglesData ELSE << triangleData >>

\* the last call before j that binds a buffer, or 0
RECURSIVE LastBind(_, _)
LastBind(c, j) ==
  IF j <= 1 THEN 0
  ELSE IF c[j - 1].op = "bindBuffer" THEN j - 1
  ELSE LastBind(c, j - 1)

\* the last vertexAttribPointer call before j for the attribute at `location`
\* with `size` components, or 0
RECURSIVE LastPointer(_, _, _, _)
LastPointer(c, j, location, size) ==
  IF j <= 1 THEN 0
  ELSE IF /\ c[j - 1].op = "vertexAttribPointer"
          /\ c[j - 1].a[1] = location
          /\ c[j - 1].a[2] = size
  THEN j - 1
  ELSE LastPointer(c, j - 1, location, size)

\* the buffer the attribute's pointer refers to when call j of the invocation c
\* is issued: the buffer bound when its pointer was last set, or null when the
\* location names no attribute or the pointer was never set
PointerTarget(c, j, location, size) ==
  LET i == LastPointer(c, j, location, size)
  IN IF location \notin AttribLocs \/ i = 0 \/ LastBind(c, i) = 0 THEN NULL
     ELSE c[LastBind(c, i)].a[2]

\* every bufferData call of the run uploads into the buffer created and bound
\* just before it, and each GeometryBuffer holds its own triangle's arrays
UploadsPaired ==
  /\ \A i \in 1..Len(trace) :
       trace[i].op = "bufferData" =>
         /\ i >= 3
         /\ trace[i - 2].op = "createBuffer"
         /\ trace[i - 1].op = "bindBuffer"
         /\ trace[i - 1].a = << ARRAY_BUFFER, trace[i - 2].r >>
  /\ pc \in {"drawScene", "idle", "done"} =>
       /\ Len(GeometryBuffers) = Len(GeometryData)
       /\ \A k \in 1..Len(GeometryBuffers) :
            /\ gl.data[GeometryBuffers[k].position] = GeometryData[k].positions
            /\ gl.data[GeometryBuffers[k].color] = GeometryData[k].colors
            /\ GeometryBuffers[k].position # GeometryBuffers[k].color

\* at every drawArrays of the last invocation both attribute pointers refer to
\* the buffers of the GeometryBuffer being drawn, and every fragment written
\* took its position and its colour from the two buffers of one GeometryBuffer
DrawsPaired ==
  frames >= 1 =>
    LET c == lastFrame.calls
        d == Indices(c, "drawArrays")
    IN /\ \A k \in 1..Len(d) :
            /\ k <= Len(GeometryBuffers)
            /\ PointerTarget(c, d[k], programInfo.vertexPosition, PositionSize)
                 = GeometryBuffers[k].position
            /\ PointerTarget(c, d[k], programInfo.vertexColor, ColorSize)
                 = GeometryBuffers[k].color
       /\ \A l \in AttribLocs :
            lastFrame.after.attrib[l].buf
              = PointerTarget(c, Len(c) + 1, l,
                              IF l = programInfo.vertexPosition
                              THEN PositionSize ELSE ColorSize)
       /\ \A p \in Pixels :
            lastFrame.after.color[p].pos # NULL =>
              \E k \in 1..Len(GeometryBuffers) :
                 /\ lastFrame.after.color[p].pos = GeometryBuffers[k].position
                 /\ lastFrame.after.color[p].col = GeometryBuffers[k].color

\* C11: buffer/attribute pairing is never crossed: every bufferData uploads
\* into the buffer created and bound immediately before it, positions into the
\* position buffer and colours into the colour buffer of the same triangle;
\* and at every drawArrays the position attribute pointer refers to the
\* position buffer and the colour attribute pointer to the colour buffer of
\* the GeometryBuffer being drawn.
C11_PairingNeverCrossed == UploadsPaired /\ DrawsPaired

\* C11 in the runs whose program linked: there the pairing holds at every
\* upload and every draw.
C11_PairingWhenLinked == UploadsPaired /\ (program # NULL => DrawsPaired)

C11_LinkedWitness ==
  /\ variant = "multi"
  /\ frames >= 1
  /\ program # NULL
  /\ PointerTarget(lastFrame.calls, Indices(lastFrame.calls, "drawArrays")[1],
                   programInfo.vertexPosition, PositionSize) = buffers[1].position
  /\ \E p \in Pixels : lastFrame.after.color[p].pos = buffers[1].position
  /\ \E p \in Pixels : lastFrame.after.color[p].col = buffers[2].color

====
